---- MODULE Spec2Model ----
(***************************************************************************)
(* Model of the ClickHouse / Vertica load-and-read benchmark (src/main.py). *)
(* One run of the script is a sequence of steps; every call to a database   *)
(* driver either succeeds or throws.  A call throws when the environment    *)
(* makes it throw (an injected fault) or when the database itself rejects   *)
(* the statement (INSERT / SELECT on a table that does not exist).          *)
(***************************************************************************)
EXTENDS Integers, Sequences, FiniteSets, TLC

VARIABLES
    pc,          \* position of the script: the step that runs next
    chSettings,  \* settings.clickhouse (database, table)
    vSettings,   \* settings.vertica (vertica_schema, table)
    ch,          \* the ClickHouse server: [tables, log]
    vt,          \* the Vertica server:    [tables, log]
    events,      \* main's local `events`
    times,       \* the durations main has measured so far (their keys)
    result,      \* what main() returned: [kind, keys]
    escaped,     \* the exception that left a step: [at, exc]
    caught,      \* how often main's `except Exception` ran
    image,       \* database_performance_comparison.png has been written
    crashed,     \* the script died of an exception nobody caught
    faults,      \* steps in which the environment made a call throw
    failed,      \* steps in which some call threw (injected or rejected)
    trace,       \* the steps executed so far, in order
    snap,        \* the ClickHouse tables as the constructor's init left them
    call,        \* the last load call: [fn, events, chBefore, vBefore, raised]
    connOutcome  \* how vertica_python.connect ended ("unset" before it ran)

vars == <<pc, chSettings, vSettings, ch, vt, events, times, result, escaped,
          caught, image, crashed, faults, failed, trace, snap, call,
          connOutcome>>

---------------------------------------------------------------------------
(* Bounds of the model *)

\* main's num_events (1000) scaled down; the harness loads 0..MaxEvents events
MaxEvents == 2
\* at most this many steps have a statement made to throw by the environment
\* in one run (the outcome of vertica_python.connect is chosen freely)
MaxFaults == 1

---------------------------------------------------------------------------
(* Configuration and data *)

CHDatabases == {"example", "bench"}
CHTableNames == {"events", "hits"}
ClickhouseSettings == [database : CHDatabases, table : CHTableNames]

VSchemas == {"public", "stage"}
VerticaSettings == [vertica_schema : VSchemas, table : {"events"}]

\* the fields the statements are told apart by; timestamp and user_id are
\* carried along unchanged and are left out
Event == [event_type : {"click", "view", "purchase"}]

\* the lists generate_events(n) can return: n events, each field drawn at random
generate_events(n) == [1..n -> Event]

EventLists == UNION {generate_events(n) : n \in 0..MaxEvents}

---------------------------------------------------------------------------
(* The databases: tables by qualified name, and the statements received *)

CHNames == CHDatabases \X CHTableNames
VNames == VSchemas \X {"events"}

Absent == [exists |-> FALSE, schema |-> "none", rows |-> <<>>]
\* a table of an earlier run: another schema, rows already in it
Legacy == [exists |-> TRUE, schema |-> "legacy",
           rows |-> <<[event_type |-> "view"]>>]
\* event_type String, timestamp DateTime64, user_id UUID NULL, url String NULL
CHFresh == [exists |-> TRUE, schema |-> "String,DateTime64,UUID NULL,String NULL",
            rows |-> <<>>]
\* event_type VARCHAR(255), timestamp TIMESTAMP, user_id UUID NULL, url VARCHAR(255) NULL
VFresh == [exists |-> TRUE, schema |-> "VARCHAR,TIMESTAMP,UUID NULL,VARCHAR NULL",
           rows |-> <<>>]

Stmt(op, target, data) == [op |-> op, target |-> target, data |-> data]

\* the database rejects INSERT and SELECT on a table that does not exist
CanRun(tables, s) ==
    s.op \in {"INSERT", "SELECT"} => tables[s.target].exists

Apply(tables, s, fresh) ==
    CASE s.op = "DROP TABLE IF EXISTS" ->
            [tables EXCEPT ![s.target] = Absent]
      [] s.op = "CREATE TABLE IF NOT EXISTS" ->
            IF tables[s.target].exists THEN tables
            ELSE [tables EXCEPT ![s.target] = fresh]
      [] s.op = "INSERT" ->
            [tables EXCEPT ![s.target].rows = @ \o s.data]
      [] OTHER -> tables

Logged(s, ok) == [op |-> s.op, target |-> s.target, data |-> s.data, ok |-> ok]

\* Issue stmts[i..] in order; statement failAt is made to throw by the
\* environment.  The first statement that throws ends the sequence.
RECURSIVE RunFrom(_, _, _, _, _)
RunFrom(db, stmts, i, failAt, fresh) ==
    IF i > Len(stmts)
    THEN [tables |-> db.tables, log |-> db.log, raised |-> FALSE]
    ELSE IF i # failAt /\ CanRun(db.tables, stmts[i])
         THEN RunFrom([tables |-> Apply(db.tables, stmts[i], fresh),
                       log |-> Append(db.log, Logged(stmts[i], TRUE))],
                      stmts, i + 1, failAt, fresh)
         ELSE [tables |-> db.tables,
               log |-> Append(db.log, Logged(stmts[i], FALSE)),
               raised |-> TRUE]

\* `with connection.cursor() as cur:` then the statements; failAt = Len + 1
\* stands for cursor() itself throwing, before any statement is issued
RunCursor(db, stmts, failAt) ==
    IF failAt = Len(stmts) + 1
    THEN [tables |-> db.tables, log |-> db.log, raised |-> TRUE]
    ELSE RunFrom(db, stmts, 1, failAt, VFresh)

---------------------------------------------------------------------------
(* ClickhouseLoader *)

InitStatements(s) ==
    << Stmt("CREATE DATABASE IF NOT EXISTS", <<s.database, "">>, <<>>),
       Stmt("USE", <<s.database, "">>, <<>>),
       Stmt("DROP TABLE IF EXISTS", <<s.database, s.table>>, <<>>),
       Stmt("CREATE TABLE IF NOT EXISTS", <<s.database, s.table>>, <<>>) >>

\* faulty variant: init_clickhouse without its DROP TABLE statement
init_clickhouse_no_drop(db, s, failAt) ==
    LET stmts == << InitStatements(s)[1], InitStatements(s)[2], InitStatements(s)[4] >>
        r == RunFrom(db, stmts, 1, failAt, CHFresh)
    IN  [tables |-> r.tables, log |-> r.log, raised |-> FALSE, threw |-> r.raised]

\* the whole body is inside try / except Exception: nothing is raised
init_clickhouse(db, s, failAt) ==
    LET r == RunFrom(db, InitStatements(s), 1, failAt, CHFresh)
    IN  [tables |-> r.tables, log |-> r.log, raised |-> FALSE, threw |-> r.raised]

\* faulty variant: load_batch without the `if not event_batch: return` guard
load_batch_unguarded(db, event_batch, failAt) ==
    LET r == RunFrom(db, <<Stmt("INSERT", <<"example", "events">>, event_batch)>>,
                     1, failAt, CHFresh)
    IN  [tables |-> r.tables, log |-> r.log, raised |-> FALSE, threw |-> r.raised]

\* faulty variant: load_batch without try / except around client.insert
load_batch_raises(db, event_batch, failAt) ==
    IF event_batch = <<>>
    THEN [tables |-> db.tables, log |-> db.log, raised |-> FALSE, threw |-> FALSE]
    ELSE LET r == RunFrom(db, <<Stmt("INSERT", <<"example", "events">>, event_batch)>>,
                          1, failAt, CHFresh)
         IN  [tables |-> r.tables, log |-> r.log, raised |-> r.raised,
              threw |-> r.raised]

\* the insert goes to the literal table "example.events"
load_batch(db, event_batch, failAt) ==
    IF event_batch = <<>>
    THEN [tables |-> db.tables, log |-> db.log, raised |-> FALSE, threw |-> FALSE]
    ELSE LET r == RunFrom(db, <<Stmt("INSERT", <<"example", "events">>, event_batch)>>,
                          1, failAt, CHFresh)
         IN  [tables |-> r.tables, log |-> r.log, raised |-> FALSE, threw |-> r.raised]

\* no try: an exception of client.query leaves read_data
read_data(db, s, failAt) ==
    LET r == RunFrom(db, <<Stmt("SELECT", <<s.database, s.table>>, <<>>)>>,
                     1, failAt, CHFresh)
    IN  [tables |-> r.tables, log |-> r.log, raised |-> r.raised, threw |-> r.raised]

---------------------------------------------------------------------------
(* DatabaseManager *)

ConnectOutcomes == {"ok", "vertica_python.errors.ConnectionError", "other"}

\* faulty variant: connect_to_vertica that logs the ConnectionError and
\* returns None instead of raising
connect_to_vertica_no_raise(outcome) ==
    CASE outcome = "ok" -> "none"
      [] outcome = "vertica_python.errors.ConnectionError" -> "none"
      [] OTHER -> "Exception"

\* vertica's ConnectionError is caught, logged, and the builtin ConnectionError
\* is raised after the try; any other exception leaves the method as it is
connect_to_vertica(outcome) ==
    CASE outcome = "ok" -> "none"
      [] outcome = "vertica_python.errors.ConnectionError" -> "ConnectionError"
      [] OTHER -> "Exception"

\* cursor() and execute are both inside try / except Exception
create_vertica_table(db, vs, failAt) ==
    LET r == RunCursor(db, <<Stmt("CREATE TABLE IF NOT EXISTS",
                                  <<vs.vertica_schema, vs.table>>, <<>>)>>, failAt)
    IN  [tables |-> r.tables, log |-> r.log, raised |-> FALSE, threw |-> r.raised]

read_data_from_vertica(db, vs, failAt) ==
    LET r == RunCursor(db, <<Stmt("SELECT", <<vs.vertica_schema, vs.table>>, <<>>)>>,
                       failAt)
    IN  [tables |-> r.tables, log |-> r.log, raised |-> r.raised, threw |-> r.raised]

---------------------------------------------------------------------------
(* Module-level load functions *)

\* one INSERT INTO public.events per event, in list order, then COMMIT
VerticaLoadStatements(evs) ==
    [i \in 1..Len(evs) |-> Stmt("INSERT", <<"public", "events">>, <<evs[i]>>)]
        \o <<Stmt("COMMIT", <<"", "">>, <<>>)>>

\* faulty variant: the per-row inserts turned into one bulk INSERT
load_data_to_vertica_bulk(db, evs, failAt) ==
    LET r == RunCursor(db, <<Stmt("INSERT", <<"public", "events">>, evs),
                             Stmt("COMMIT", <<"", "">>, <<>>)>>, failAt)
    IN  [tables |-> r.tables, log |-> r.log, raised |-> r.raised, threw |-> r.raised]

load_data_to_vertica(db, evs, failAt) ==
    LET r == RunCursor(db, VerticaLoadStatements(evs), failAt)
    IN  [tables |-> r.tables, log |-> r.log, raised |-> r.raised, threw |-> r.raised]

load_data_to_clickhouse(db, evs, failAt) == load_batch(db, evs, failAt)

---------------------------------------------------------------------------
(* main() and the script around it *)

\* faulty variant: the Vertica write placed before the ClickHouse write
NextStepWritesSwapped(p) ==
    CASE p = "get_client"     -> "ctor_init"
      [] p = "ctor_init"      -> "connect"
      [] p = "connect"        -> "main_init"
      [] p = "main_init"      -> "create_vertica"
      [] p = "create_vertica" -> "generate"
      [] p = "generate"       -> "write_v"
      [] p = "write_v"        -> "write_ch"
      [] p = "write_ch"       -> "read_ch"
      [] p = "read_ch"        -> "read_v"
      [] p = "read_v"         -> "return"
      [] OTHER                -> "script"

\* faulty variant: ClickhouseLoader.__init__ without its call of init_clickhouse
NextStepNoCtorInit(p) ==
    CASE p = "get_client"     -> "connect"
      [] p = "connect"        -> "main_init"
      [] p = "main_init"      -> "create_vertica"
      [] p = "create_vertica" -> "generate"
      [] p = "generate"       -> "write_ch"
      [] p = "write_ch"       -> "write_v"
      [] p = "write_v"        -> "read_ch"
      [] p = "read_ch"        -> "read_v"
      [] p = "read_v"         -> "return"
      [] OTHER                -> "script"

\* the order of the statements of DatabaseManager.__init__,
\* ClickhouseLoader.__init__ and main
NextStep(p) ==
    CASE p = "get_client"     -> "ctor_init"
      [] p = "ctor_init"      -> "connect"
      [] p = "connect"        -> "main_init"
      [] p = "main_init"      -> "create_vertica"
      [] p = "create_vertica" -> "generate"
      [] p = "generate"       -> "write_ch"
      [] p = "write_ch"       -> "write_v"
      [] p = "write_v"        -> "read_ch"
      [] p = "read_ch"        -> "read_v"
      [] p = "read_v"         -> "return"
      [] OTHER                -> "script"

NoCall == [fn |-> "none", events |-> <<>>, chBefore |-> 0, vBefore |-> 0,
           raised |-> FALSE]
NoEscape == [at |-> "none", exc |-> "none"]

TableStates == {Absent, Legacy}

\* the servers as a run may find them: the literal table example.events and
\* the other tables each exist (left by an earlier run) or not
InitServers ==
    /\ \E a, b \in TableStates :
          ch = [tables |-> [n \in CHNames |->
                               IF n = <<"example", "events">> THEN a ELSE b],
                log |-> <<>>]
    /\ \E a \in TableStates :
          vt = [tables |-> [n \in VNames |-> a], log |-> <<>>]

InitCommon ==
    /\ chSettings \in ClickhouseSettings
    /\ vSettings \in VerticaSettings
    /\ InitServers
    /\ times = {}
    /\ result = [kind |-> "unset", keys |-> {}]
    /\ escaped = NoEscape
    /\ caught = 0
    /\ image = FALSE
    /\ crashed = FALSE
    /\ faults = {}
    /\ failed = {}
    /\ trace = <<>>
    /\ snap = ch.tables
    /\ call = NoCall
    /\ connOutcome = "unset"

Init ==
    /\ pc = "get_client"
    /\ events = <<>>
    /\ InitCommon

MayInject(injected) == injected => Cardinality(faults \ {"connect"}) < MaxFaults

\* what every step of main does to the bookkeeping: exc is the exception that
\* leaves the step ("none" if none), threw says a call inside it threw
Finish(step, exc, threw, injected) ==
    /\ pc' = IF exc # "none" THEN "except" ELSE NextStep(step)
    /\ escaped' = IF exc # "none" THEN [at |-> step, exc |-> exc] ELSE escaped
    /\ failed' = IF threw THEN failed \cup {step} ELSE failed
    /\ faults' = IF injected THEN faults \cup {step} ELSE faults
    /\ trace' = Append(trace, step)

\* ClickhouseLoader.__init__: clickhouse_connect.get_client, outside any try
GetClient ==
    /\ pc = "get_client"
    /\ \E fail \in BOOLEAN :
          /\ MayInject(fail)
          /\ Finish("get_client", IF fail THEN "Exception" ELSE "none", fail, fail)
    /\ UNCHANGED <<chSettings, vSettings, ch, vt, events, times, result, caught,
                   image, crashed, snap, call, connOutcome>>

\* ClickhouseLoader.__init__: self.init_clickhouse()
CtorInit ==
    /\ pc = "ctor_init"
    /\ \E failAt \in 0..Len(InitStatements(chSettings)) :
          LET r == init_clickhouse(ch, chSettings, failAt)
          IN  /\ MayInject(failAt # 0)
              /\ ch' = [tables |-> r.tables, log |-> r.log]
              /\ snap' = r.tables
              /\ Finish("ctor_init", IF r.raised THEN "Exception" ELSE "none",
                        r.threw, failAt # 0)
    /\ UNCHANGED <<chSettings, vSettings, vt, events, times, result, caught,
                   image, crashed, call, connOutcome>>

\* DatabaseManager.__init__: self.vertica_connection = self.connect_to_vertica()
Connect ==
    /\ pc = "connect"
    /\ \E outcome \in ConnectOutcomes :
          /\ connOutcome' = outcome
          /\ Finish("connect", connect_to_vertica(outcome), outcome # "ok",
                    outcome # "ok")
    /\ UNCHANGED <<chSettings, vSettings, ch, vt, events, times, result, caught,
                   image, crashed, snap, call>>

\* main: db_manager.clickhouse_loader.init_clickhouse()
MainInit ==
    /\ pc = "main_init"
    /\ \E failAt \in 0..Len(InitStatements(chSettings)) :
          LET r == init_clickhouse(ch, chSettings, failAt)
          IN  /\ MayInject(failAt # 0)
              /\ ch' = [tables |-> r.tables, log |-> r.log]
              /\ Finish("main_init", IF r.raised THEN "Exception" ELSE "none",
                        r.threw, failAt # 0)
    /\ UNCHANGED <<chSettings, vSettings, vt, events, times, result, caught,
                   image, crashed, snap, call, connOutcome>>

\* main: db_manager.create_vertica_table()
CreateVerticaTable ==
    /\ pc = "create_vertica"
    /\ \E failAt \in 0..2 :
          LET r == create_vertica_table(vt, vSettings, failAt)
          IN  /\ MayInject(failAt # 0)
              /\ vt' = [tables |-> r.tables, log |-> r.log]
              /\ Finish("create_vertica", IF r.raised THEN "Exception" ELSE "none",
                        r.threw, failAt # 0)
    /\ UNCHANGED <<chSettings, vSettings, ch, events, times, result, caught,
                   image, crashed, snap, call, connOutcome>>

\* main: events = generate_events(num_events)
Generate ==
    /\ pc = "generate"
    /\ events' \in generate_events(MaxEvents)
    /\ Finish("generate", "none", FALSE, FALSE)
    /\ UNCHANGED <<chSettings, vSettings, ch, vt, times, result, caught,
                   image, crashed, snap, call, connOutcome>>

\* main: clickhouse_write_time = load_data_to_clickhouse(events, loader)
WriteClickhouse ==
    /\ pc = "write_ch"
    /\ \E failAt \in 0..1 :
          LET r == load_data_to_clickhouse(ch, events, failAt)
          IN  /\ MayInject(failAt # 0)
              /\ ch' = [tables |-> r.tables, log |-> r.log]
              /\ call' = [fn |-> "load_batch", events |-> events,
                          chBefore |-> Len(ch.log), vBefore |-> Len(vt.log),
                          raised |-> r.raised]
              /\ times' = IF r.raised THEN times
                          ELSE times \cup {"clickhouse_write_time"}
              /\ Finish("write_ch", IF r.raised THEN "Exception" ELSE "none",
                        r.threw, failAt # 0)
    /\ UNCHANGED <<chSettings, vSettings, vt, events, result, caught,
                   image, crashed, snap, connOutcome>>

\* main: vertica_write_time = load_data_to_vertica(events, connection)
WriteVertica ==
    /\ pc = "write_v"
    /\ \E failAt \in 0..(Len(events) + 2) :
          LET r == load_data_to_vertica(vt, events, failAt)
          IN  /\ MayInject(failAt # 0)
              /\ vt' = [tables |-> r.tables, log |-> r.log]
              /\ call' = [fn |-> "load_data_to_vertica", events |-> events,
                          chBefore |-> Len(ch.log), vBefore |-> Len(vt.log),
                          raised |-> r.raised]
              /\ times' = IF r.raised THEN times
                          ELSE times \cup {"vertica_write_time"}
              /\ Finish("write_v", IF r.raised THEN "Exception" ELSE "none",
                        r.threw, failAt # 0)
    /\ UNCHANGED <<chSettings, vSettings, ch, events, result, caught,
                   image, crashed, snap, connOutcome>>

\* main: clickhouse_read_time = db_manager.clickhouse_loader.read_data()
ReadClickhouse ==
    /\ pc = "read_ch"
    /\ \E failAt \in 0..1 :
          LET r == read_data(ch, chSettings, failAt)
          IN  /\ MayInject(failAt # 0)
              /\ ch' = [tables |-> r.tables, log |-> r.log]
              /\ times' = IF r.raised THEN times
                          ELSE times \cup {"clickhouse_read_time"}
              /\ Finish("read_ch", IF r.raised THEN "Exception" ELSE "none",
                        r.threw, failAt # 0)
    /\ UNCHANGED <<chSettings, vSettings, vt, events, result, caught,
                   image, crashed, snap, call, connOutcome>>

\* main: vertica_read_time = db_manager.read_data_from_vertica()
ReadVertica ==
    /\ pc = "read_v"
    /\ \E failAt \in 0..2 :
          LET r == read_data_from_vertica(vt, vSettings, failAt)
          IN  /\ MayInject(failAt # 0)
              /\ vt' = [tables |-> r.tables, log |-> r.log]
              /\ times' = IF r.raised THEN times
                          ELSE times \cup {"vertica_read_time"}
              /\ Finish("read_v", IF r.raised THEN "Exception" ELSE "none",
                        r.threw, failAt # 0)
    /\ UNCHANGED <<chSettings, vSettings, ch, events, result, caught,
                   image, crashed, snap, call, connOutcome>>

\* main: log the four durations and return the mapping
Return ==
    /\ pc = "return"
    /\ result' = [kind |-> "mapping", keys |-> times]
    /\ pc' = "script"
    /\ trace' = Append(trace, "return")
    /\ UNCHANGED <<chSettings, vSettings, ch, vt, events, times, escaped, caught,
                   image, crashed, faults, failed, snap, call, connOutcome>>

\* faulty variant: the handler returns the durations measured so far
ExceptReturnsTimes ==
    /\ pc = "except"
    /\ caught' = caught + 1
    /\ result' = [kind |-> "mapping", keys |-> times]
    /\ pc' = "script"
    /\ trace' = Append(trace, "except")
    /\ UNCHANGED <<chSettings, vSettings, ch, vt, events, times, escaped,
                   image, crashed, faults, failed, snap, call, connOutcome>>

\* main: except Exception: logger.exception(...); main returns None
Except ==
    /\ pc = "except"
    /\ caught' = caught + 1
    /\ result' = [kind |-> "None", keys |-> {}]
    /\ pc' = "script"
    /\ trace' = Append(trace, "except")
    /\ UNCHANGED <<chSettings, vSettings, ch, vt, events, times, escaped,
                   image, crashed, faults, failed, snap, call, connOutcome>>

\* __main__: plot_results(**times); `**None` is a TypeError raised before
\* plot_results is entered, and nothing catches it
PlotResults ==
    /\ pc = "script"
    /\ IF result.kind = "mapping"
       THEN image' = TRUE /\ crashed' = FALSE
       ELSE image' = image /\ crashed' = TRUE
    /\ pc' = "exit"
    /\ trace' = Append(trace, IF result.kind = "mapping" THEN "plot" ELSE "TypeError")
    /\ UNCHANGED <<chSettings, vSettings, ch, vt, events, times, result, escaped,
                   caught, faults, failed, snap, call, connOutcome>>

Next ==
    \/ GetClient
    \/ CtorInit
    \/ Connect
    \/ MainInit
    \/ CreateVerticaTable
    \/ Generate
    \/ WriteClickhouse
    \/ WriteVertica
    \/ ReadClickhouse
    \/ ReadVertica
    \/ Return
    \/ Except
    \/ PlotResults

Spec == Init /\ [][Next]_vars

---------------------------------------------------------------------------
(* The load functions called on their own, with any list of 0..MaxEvents    *)
(* events, each at most once and in either order                            *)

LoadInit ==
    /\ pc = "harness"
    /\ events \in EventLists
    /\ InitCommon

CallLoadBatch ==
    /\ pc = "harness"
    /\ \A i \in 1..Len(trace) : trace[i] # "load_batch"
    /\ \E failAt \in 0..1 :
          LET r == load_batch(ch, events, failAt)
          IN  /\ MayInject(failAt # 0)
              /\ ch' = [tables |-> r.tables, log |-> r.log]
              /\ call' = [fn |-> "load_batch", events |-> events,
                          chBefore |-> Len(ch.log), vBefore |-> Len(vt.log),
                          raised |-> r.raised]
              /\ failed' = IF r.threw THEN failed \cup {"load_batch"} ELSE failed
              /\ faults' = IF failAt # 0 THEN faults \cup {"load_batch"} ELSE faults
    /\ trace' = Append(trace, "load_batch")
    /\ UNCHANGED <<pc, chSettings, vSettings, vt, events, times, result, escaped,
                   caught, image, crashed, snap, connOutcome>>

CallLoadVertica ==
    /\ pc = "harness"
    /\ \A i \in 1..Len(trace) : trace[i] # "load_data_to_vertica"
    /\ \E failAt \in 0..(Len(events) + 2) :
          LET r == load_data_to_vertica(vt, events, failAt)
          IN  /\ MayInject(failAt # 0)
              /\ vt' = [tables |-> r.tables, log |-> r.log]
              /\ call' = [fn |-> "load_data_to_vertica", events |-> events,
                          chBefore |-> Len(ch.log), vBefore |-> Len(vt.log),
                          raised |-> r.raised]
              /\ failed' = IF r.threw THEN failed \cup {"load_data_to_vertica"}
                           ELSE failed
              /\ faults' = IF failAt # 0 THEN faults \cup {"load_data_to_vertica"}
                           ELSE faults
    /\ trace' = Append(trace, "load_data_to_vertica")
    /\ UNCHANGED <<pc, chSettings, vSettings, ch, events, times, result, escaped,
                   caught, image, crashed, snap, connOutcome>>

LoadNext ==
    \/ CallLoadBatch
    \/ CallLoadVertica

LoadSpec == LoadInit /\ [][LoadNext]_vars

---------------------------------------------------------------------------
(* Helpers of the properties *)

IsPrefix(s, t) ==
    /\ Len(s) <= Len(t)
    /\ \A i \in 1..Len(s) : s[i] = t[i]

\* the statements of a log, whatever became of them
Issued(log) == [i \in 1..Len(log) |-> Stmt(log[i].op, log[i].target, log[i].data)]

\* the statements the last load call sent to each server
NewCH == SubSeq(ch.log, call.chBefore + 1, Len(ch.log))
NewV == SubSeq(vt.log, call.vBefore + 1, Len(vt.log))

Commit == Stmt("COMMIT", <<"", "">>, <<>>)

\* n inserts, the i-th carrying the i-th event, and then one COMMIT
InsertsThenCommit(evs) ==
    [i \in 1..(Len(evs) + 1) |->
        IF i <= Len(evs) THEN Stmt("INSERT", <<"public", "events">>, <<evs[i]>>)
        ELSE Commit]

---------------------------------------------------------------------------
(* C4: for a non-empty list of n events, load_data_to_vertica issues n       *)
(* INSERTs, the i-th for the i-th event, and then exactly one COMMIT: what   *)
(* it has issued is always a prefix of that sequence (the COMMIT is never    *)
(* before or between inserts), and all of it once the call returns.          *)
C4_InsertsThenOneCommit ==
    (call.fn = "load_data_to_vertica" /\ call.events # <<>>) =>
        /\ IsPrefix(Issued(NewV), InsertsThenCommit(call.events))
        /\ ~call.raised => /\ Issued(NewV) = InsertsThenCommit(call.events)
                           /\ \A i \in 1..Len(NewV) : NewV[i].ok

C4_Witness ==
    /\ call.fn = "load_data_to_vertica"
    /\ Len(call.events) >= 2
    /\ call.events[1] # call.events[2]
    /\ ~call.raised
    /\ Len(NewV) = Len(call.events) + 1

(* C5 as stated: loading an empty list, with either load function, issues   *)
(* no statement to a database and does not raise.                           *)
C5_Original ==
    (call.fn # "none" /\ call.events = <<>>) =>
        /\ ~call.raised
        /\ NewCH = <<>>
        /\ NewV = <<>>

(* C5 amended: ClickhouseLoader.load_batch with an empty list issues no      *)
(* statement and does not raise; load_data_to_vertica with an empty list     *)
(* issues no INSERT but still opens a cursor and issues one COMMIT, and      *)
(* raises only if the cursor or that COMMIT throws.                          *)
C5_EmptyLoad ==
    /\ (call.fn = "load_batch" /\ call.events = <<>>) =>
          /\ ~call.raised
          /\ NewCH = <<>>
          /\ NewV = <<>>
    /\ (call.fn = "load_data_to_vertica" /\ call.events = <<>>) =>
          /\ NewCH = <<>>
          /\ IsPrefix(Issued(NewV), <<Commit>>)
          /\ ~call.raised => Issued(NewV) = <<Commit>>
          /\ call.raised => "load_data_to_vertica" \in faults

C5_Witness ==
    /\ events = <<>>
    /\ trace = <<"load_data_to_vertica", "load_batch">>
    /\ call.fn = "load_batch"
    /\ Issued(vt.log) = <<Commit>>
    /\ ch.log = <<>>

---------------------------------------------------------------------------
(* Helpers of the properties about a run of main *)

MainSteps == {"get_client", "ctor_init", "connect", "main_init", "create_vertica",
              "generate", "write_ch", "write_v", "read_ch", "read_v", "return"}

\* the place of a step of main in the documented order
\* INIT_TABLES, GENERATE, WRITE_COLUMN_STORE, WRITE_ROW_STORE,
\* READ_COLUMN_STORE, READ_ROW_STORE, REPORT
Rank(step) ==
    CASE step \in {"get_client", "ctor_init", "connect", "main_init",
                   "create_vertica"} -> 1
      [] step = "generate" -> 2
      [] step = "write_ch" -> 3
      [] step = "write_v"  -> 4
      [] step = "read_ch"  -> 5
      [] step = "read_v"   -> 6
      [] step = "return"   -> 7
      [] OTHER -> 8

InTrace(step) == \E i \in 1..Len(trace) : trace[i] = step

FourKeys == {"clickhouse_write_time", "vertica_write_time",
             "clickhouse_read_time", "vertica_read_time"}

Target == <<chSettings.database, chSettings.table>>

\* DROP TABLE and then CREATE TABLE of the configured table have both run
DroppedAndRecreated ==
    \E i, j \in 1..Len(ch.log) :
        /\ i < j
        /\ ch.log[i] = Logged(Stmt("DROP TABLE IF EXISTS", Target, <<>>), TRUE)
        /\ ch.log[j] = Logged(Stmt("CREATE TABLE IF NOT EXISTS", Target, <<>>), TRUE)

CreateTableThrew ==
    \E i \in 1..Len(ch.log) :
        ch.log[i] = Logged(Stmt("CREATE TABLE IF NOT EXISTS", Target, <<>>), FALSE)

---------------------------------------------------------------------------
(* C1: the steps of main run in the documented order: each executed step is  *)
(* the same phase as the one before it (inside table provisioning) or the    *)
(* very next phase, every phase after provisioning runs at most once, main   *)
(* starts with provisioning, and it returns only after all seven phases.     *)
C1_FixedOrder ==
    /\ \A i \in 1..Len(trace) :
          trace[i] \in MainSteps =>
              /\ i = 1 => Rank(trace[i]) = 1
              /\ i > 1 => /\ trace[i - 1] \in MainSteps
                          /\ Rank(trace[i]) >= Rank(trace[i - 1])
                          /\ Rank(trace[i]) <= Rank(trace[i - 1]) + 1
                          /\ Rank(trace[i]) > 1 => Rank(trace[i]) # Rank(trace[i - 1])
    /\ pc \in MainSteps /\ trace # <<>> =>
          /\ Rank(pc) >= Rank(trace[Len(trace)])
          /\ Rank(pc) <= Rank(trace[Len(trace)]) + 1
    /\ InTrace("return") =>
          \A r \in 1..7 : \E i \in 1..Len(trace) : Rank(trace[i]) = r

C1_Witness ==
    /\ pc = "exit"
    /\ InTrace("return")
    /\ Len(trace) = 12

(* C2: main returns the mapping of the four durations exactly when no        *)
(* exception left a step; an exception that leaves a step is caught once,    *)
(* main then returns None with no further step run, and no image is written. *)
C2_ResultIffNoException ==
    /\ caught <= 1
    /\ result.kind = "mapping" => /\ escaped = NoEscape
                                  /\ result.keys = FourKeys
                                  /\ caught = 0
    /\ result.kind = "None" => /\ escaped # NoEscape
                               /\ caught = 1
                               /\ ~InTrace("return")
    /\ escaped # NoEscape =>
          /\ pc \in {"except", "script", "exit"}
          /\ \A i \in 1..Len(trace) :
                trace[i] = escaped.at =>
                    \A j \in (i + 1)..Len(trace) : trace[j] \notin MainSteps
          /\ ~image
    /\ pc = "exit" => /\ result.kind \in {"mapping", "None"}
                      /\ image <=> result.kind = "mapping"
                      /\ result.kind = "mapping" <=> escaped = NoEscape

C2_Witness ==
    /\ pc = "exit"
    /\ escaped.at = "write_v"
    /\ result.kind = "None"
    /\ caught = 1
    /\ ~image

(* C3: if the Vertica connection cannot be established, connect_to_vertica   *)
(* raises ConnectionError and the run ends before any event is generated:    *)
(* no generate, no write and no read is executed.                            *)
C3_ConnectFailureAborts ==
    connOutcome \notin {"unset", "ok"} =>
        /\ escaped.at = "connect"
        /\ connOutcome = "vertica_python.errors.ConnectionError" =>
              escaped.exc = "ConnectionError"
        /\ events = <<>>
        /\ \A s \in {"generate", "write_ch", "write_v", "read_ch", "read_v"} :
              ~InTrace(s) /\ pc # s
        /\ vt.log = <<>>
        /\ \A i \in 1..Len(ch.log) : ch.log[i].op \notin {"INSERT", "SELECT"}
        /\ result.kind # "mapping"

C3_Witness ==
    /\ connOutcome = "vertica_python.errors.ConnectionError"
    /\ pc = "exit"
    /\ result.kind = "None"

(* C6 as stated: if CREATE TABLE throws in init_clickhouse and nothing else  *)
(* is made to fail (the Vertica write having gone through), the run does not *)
(* abort: it goes on to both reads and returns its result.                   *)
C6_Original ==
    ( /\ pc = "exit"
      /\ CreateTableThrew
      /\ faults \subseteq {"ctor_init", "main_init"}
      /\ InTrace("write_v")
      /\ "write_v" \notin failed ) =>
        /\ InTrace("read_ch")
        /\ InTrace("read_v")
        /\ result.kind = "mapping"

(* C7: after init_clickhouse has run twice (constructor, then main) with no  *)
(* statement failing, the tables are as the first run left them, and the     *)
(* configured table exists, empty, with the fixed four-column schema.        *)
C7_InitTwiceSameAsOnce ==
    /\ (InTrace("ctor_init") /\ "ctor_init" \notin failed) => snap[Target] = CHFresh
    /\ (pc = "create_vertica" /\ failed \cap {"ctor_init", "main_init"} = {}) =>
          /\ ch.tables = snap
          /\ ch.tables[Target] = CHFresh

C7_Witness ==
    /\ pc = "create_vertica"
    /\ failed = {}
    /\ Len(ch.log) = 8
    /\ ch.tables[Target] = CHFresh

(* C8 as stated: whatever the configured database and table, every INSERT   *)
(* of load_batch goes to the table init_clickhouse provisioned and read_data *)
(* scans, <database>.<table>.                                                *)
C8_Original ==
    \A i \in 1..Len(ch.log) : ch.log[i].op = "INSERT" => ch.log[i].target = Target

(* C9 as stated: only a failed Vertica connection ends the run; a failure in *)
(* any other step is logged and the run goes on.                             *)
C9_Original ==
    escaped.at \in {"none", "connect"}

FatalSteps == {"get_client", "connect", "write_v", "read_ch", "read_v"}
SwallowingSteps == {"ctor_init", "main_init", "create_vertica", "write_ch"}

(* C9 amended: a failure in ClickHouse provisioning (either call of          *)
(* init_clickhouse), in create_vertica_table or in ClickhouseLoader's        *)
(* load_batch is logged and the run goes on with the following step; a       *)
(* failure in get_client, connect_to_vertica, load_data_to_vertica,          *)
(* read_data or read_data_from_vertica leaves the step and ends the run      *)
(* without a result.                                                         *)
C9_FatalAndSwallowed ==
    /\ escaped.at \in {"none"} \cup FatalSteps
    /\ \A s \in failed \cap FatalSteps :
          /\ escaped.at = s
          /\ result.kind # "mapping"
          /\ pc \in {"except", "script", "exit"}
    /\ \A s \in failed \cap SwallowingSteps :
          /\ escaped.at # s
          /\ \A i \in 1..Len(trace) :
                trace[i] = s =>
                    IF i < Len(trace) THEN Rank(trace[i + 1]) <= 7
                    ELSE pc \in MainSteps

C9_Witness ==
    /\ pc = "exit"
    /\ "write_ch" \in failed
    /\ "read_v" \in failed
    /\ escaped.at = "read_v"
    /\ result.kind = "None"

(* C10 as stated: the DROP TABLE / CREATE TABLE of init_clickhouse always    *)
(* run before the Vertica connection is attempted, so in every run that      *)
(* aborts on a failed connection the configured ClickHouse table has already *)
(* been dropped and recreated.                                               *)
C10_Original ==
    escaped.at = "connect" => DroppedAndRecreated

(* C10 amended: init_clickhouse has always been called by the constructor    *)
(* and has returned before the Vertica connection is attempted; the table    *)
(* has then been dropped and recreated if no statement of that call threw    *)
(* (a throw is swallowed and the connection is attempted all the same).      *)
C10_InitBeforeConnect ==
    InTrace("connect") =>
        /\ Len(trace) >= 3
        /\ trace[2] = "ctor_init"
        /\ trace[3] = "connect"
        /\ "ctor_init" \notin failed => DroppedAndRecreated
        /\ ("ctor_init" \notin failed /\ escaped.at = "connect") =>
              ch.tables[Target] = CHFresh

C10_Witness ==
    /\ escaped.at = "connect"
    /\ pc = "exit"
    /\ "ctor_init" \notin failed
    /\ DroppedAndRecreated

====
